---- MODULE Spec2Model ----
(***************************************************************************)
(* Identity and credential authority of focus-training-academy:            *)
(* OAuth federation (AuthService.handleOAuthCallback), token issue and     *)
(* rotation (generateTokens / refreshToken / logout), session validation   *)
(* (authenticateToken + validateToken) and TOTP second factor (MFAService).*)
(* Every handler is split at its await points: one action per database or  *)
(* cache round trip, with the synchronous code before it.                  *)
(***************************************************************************)
EXTENDS Integers, Sequences, FiniteSets, TLC

\* ---------------------------------------------------------------- bounds
MaxTicks == 1        \* clock advances in one behaviour
MaxFaults == 1       \* injected storage / cache faults in one behaviour
MaxMfaTicks == 3     \* TOTP time-steps that pass in one behaviour
MaxSecrets == 2      \* secrets and backup-code lists generated in one behaviour
MaxTx == 3           \* runner transactions begun in one behaviour

Procs == {1, 2}       \* concurrent request handlers
SessionProcs == {1}     \* one request at a time

\* ------------------------------------------------------ program constants
AccessLifetime == 3600          \* payload.exp = iat + 60 * 60
RefreshLifetime == 604800       \* REFRESH_TOKEN_EXPIRES_IN = '7d'
RefreshCacheTTL == 604800       \* redis.setex(..., 7 * 24 * 60 * 60, ...)

TotpStep == 30                  \* speakeasy default step, seconds
TotpWindow == 2                 \* window: 2
ReplayMarkerTTL == 90           \* redis.setex(tokenKey, 90, 'used')
BackupCodeCount == 10           \* Array.from({ length: 10 }, ...)

ClockSteps == {1}
ExpirySteps == {1, AccessLifetime}

AllowedProviders == {"google", "microsoft", "apple", "meta"}
\* export type OAuthProvider = 'google' | 'microsoft' | 'facebook' | 'apple'
OAuthProviders == {"google", "microsoft", "facebook", "apple"}
RoleNames == {"admin", "user"}
NullRole == "NULL"

PrivacyKeys == {"biometric_processing", "data_sharing", "analytics_tracking"}
NotificationKeys == {"email_enabled", "push_enabled", "challenge_reminders", "progress_updates"}

\* OAuth profiles handed to handleOAuthCallback by the passport strategies
\* the same subject seen with two e-mail addresses, and the same address
\* arriving through a second provider
Alice == [provider |-> "google", id |-> "s1", email |-> "a@x"]
AliceNewMail == [provider |-> "google", id |-> "s1", email |-> "a2@x"]
AliceMicrosoft == [provider |-> "microsoft", id |-> "s1", email |-> "a@x"]
Profiles == {Alice, AliceNewMail, AliceMicrosoft}

\* one subject per provider tag, each with an e-mail address of its own
ProviderProfiles == {[provider |-> t, id |-> "s1", email |-> t] : t \in OAuthProviders}

VARIABLES
  mfa,          \* table user_mfa: user id -> row (secret 0: no row)
  markers,      \* redis mfa_token:<userId>:<token> keys with their expiry
  secrets,      \* number of secrets and backup-code lists generated so far
  totpUsed,     \* (user, code) pairs a verify has accepted as one-time code
  users,        \* table users: set of rows
  profiles,     \* table user_profiles: set of user ids that own a row
  userRoles,    \* table user_roles joined with roles: user id -> role names
  cache,        \* redis refresh_token:<userId> -> [token, expireAt]
  now,          \* Date.now() in seconds
  ticks,        \* number of clock advances so far
  faults,       \* number of injected faults so far
  pc,           \* per handler: the await it is suspended at
  req,          \* per handler: the request being served
  loc,          \* per handler: local variables `user` and `isNewUser`
  res,          \* per handler: outcome of the last completed request
  flags,        \* per handler: observations made when the request started
  issued,       \* every token ever returned to a client
  consumed,     \* refresh tokens a successful refresh has exchanged
  fedDone,      \* identities for which a federate call has succeeded
  revokedToks,  \* user id -> tokens issued before the last completed logout
  revokedRoles, \* user id -> roles revoked and not granted again since
  dir,          \* migrations directory: the .sql files in it
  tables,       \* schema: units whose table exists
  schemaMigrations, \* table schema_migrations: set of rows
  hasMigrationsTable, \* schema_migrations has been created
  txSnap,       \* what ROLLBACK of the open transaction restores
  txCount,      \* transactions begun so far: NOW() of the open one
  runner,       \* the migration runner: position, pending units, results
  mres          \* outcome of the runner's last completed operation

mfaVars == <<mfa, markers, secrets, totpUsed>>
migDb == <<tables, schemaMigrations, hasMigrationsTable>>
migVars == <<dir, tables, schemaMigrations, hasMigrationsTable, txSnap, txCount, runner, mres>>

vars == <<mfa, markers, secrets, totpUsed, users, profiles, userRoles, cache, now, ticks, faults, pc, req, loc,
          res, flags, issued, consumed, fedDone, revokedToks, revokedRoles,
          dir, tables, schemaMigrations, hasMigrationsTable, txSnap, txCount, runner, mres>>

dbVars == <<users, profiles, userRoles>>
histVars == <<issued, consumed, fedDone, revokedToks, revokedRoles>>

\* ------------------------------------------------------------------ values
\* migrations: a unit is named by the timestamp at the head of its filename
UnitIds == {1, 2, 3}

\* a file of the migrations directory: <timestamp>_<name>.sql or
\* <timestamp>_<name>.rollback.sql, and whether its SQL raises an error
Files == [ts : UnitIds, rollback : BOOLEAN, broken : BOOLEAN]

NoName == [ts |-> 0, rollback |-> FALSE]
NoFile == [ts |-> 0, rollback |-> FALSE, broken |-> FALSE]
NoRow == [id |-> 0, filename |-> NoName, checksum |-> <<>>, executed_at |-> 0, seq |-> 0]
NoSnap == [tables |-> {}, rows |-> {}, has |-> FALSE]
NoRunner == [pc |-> "idle", pending |-> <<>>, executed |-> <<>>, results |-> <<>>,
             afterRun |-> FALSE]
NoMres == [op |-> "none", status |-> "none", results |-> <<>>, executed |-> <<>>,
           failed |-> NoFile, selected |-> NoRow, before |-> NoSnap,
           afterRun |-> FALSE, dirAt |-> {}]

\* nothing migrated, no file in the directory, the runner at rest
MigrationsUnused ==
  /\ dir = {}
  /\ tables = {}
  /\ schemaMigrations = {}
  /\ hasMigrationsTable = FALSE
  /\ txSnap = NoSnap
  /\ txCount = 0
  /\ runner = NoRunner
  /\ mres = NoMres

UserIds == 1..Cardinality(Profiles)

NoToken == [kind |-> "none", userId |-> 0, roles |-> {}, iat |-> 0, exp |-> 0]
\* a string that is no JWT signed with JWT_SECRET
InvalidToken == [kind |-> "invalid", userId |-> 0, roles |-> {}, iat |-> 0, exp |-> 0]

NoUser == [id |-> 0, email |-> "", oauth_provider |-> "", oauth_id |-> "", is_active |-> FALSE]
NoProfile == [provider |-> "", id |-> "", email |-> ""]
NoMfa == [secret |-> 0, backup_codes |-> <<>>, is_enabled |-> FALSE]
NoLoc == [user |-> NoUser, isNewUser |-> FALSE, mfaSetup |-> NoMfa, path |-> "none"]

NoCache == [token |-> NoToken, expireAt |-> 0]

NoReq == [op |-> "none", profile |-> NoProfile, token |-> NoToken, userId |-> 0, code |-> 0]

NoRes == [op |-> "none", status |-> "none", userId |-> 0, isNewUser |-> FALSE,
          refreshToken |-> NoToken, accessToken |-> NoToken, roles |-> {}, isValid |-> FALSE,
          code |-> 0, doneAt |-> 0, enabled |-> FALSE, backupCodesRemaining |-> 0,
          backupCodes |-> <<>>, path |-> "none", permissions |-> {}]

NoFlags == [sawOk |-> 0, afterConsumed |-> FALSE, afterLogout |-> FALSE, hitDup |-> FALSE,
            snap |-> {}, rolesAt |-> {}, revokedAt |-> {}, activeAt |-> FALSE, fault |-> FALSE,
            afterUsed |-> FALSE, afterEnable |-> FALSE,
            afterBackup |-> FALSE, afterDisable |-> FALSE, uid |-> 0, code |-> 0, mfaAt |-> NoMfa, markersAt |-> {},
            gate |-> "none", answer |-> "none", required |-> {}, userAt |-> NoRes,
            firstSight |-> NoProfile, matched |-> NoToken, inactiveAt |-> FALSE]

\* -------------------------------------------------------------- jsonwebtoken
\* jwt.sign(payload, JWT_SECRET, {expiresIn}) for the access token: HMAC
\* signing is deterministic, the token is a function of its payload.
SignAccess(user, t) ==
  [kind |-> "access", userId |-> user.id, roles |-> {}, iat |-> t, exp |-> t + AccessLifetime]

\* jwt.sign({userId, type: 'refresh'}, JWT_SECRET, {expiresIn: '7d'})
SignRefresh(user, t) ==
  [kind |-> "refresh", userId |-> user.id, roles |-> {}, iat |-> t, exp |-> t + RefreshLifetime]

\* jwt.verify(token, JWT_SECRET): signature and expiry, nothing else
JwtVerify(tok, t) ==
  /\ tok.kind \in {"access", "refresh"}
  /\ t < tok.exp

\* ------------------------------------------------------------------- redis
CacheGet(u) ==
  IF u \in DOMAIN cache /\ cache[u].token # NoToken /\ now < cache[u].expireAt
  THEN cache[u].token
  ELSE NoToken

\* ------------------------------------------------------------- SQL helpers
FindByOAuth(provider, oauthId) ==
  {r \in users : r.oauth_provider = provider /\ r.oauth_id = oauthId}

FindById(uid) == {r \in users : r.id = uid}

FindActiveById(uid) == {r \in users : r.id = uid /\ r.is_active}

\* variant: the table lacks the UNIQUE(oauth_provider, oauth_id) constraint
OAuthUniqueNotEnforced(row) == FALSE

\* UNIQUE(oauth_provider, oauth_id)
OAuthUniqueViolation(row) ==
  \E r \in users : r.oauth_provider = row.oauth_provider /\ r.oauth_id = row.oauth_id

\* email VARCHAR(255) UNIQUE NOT NULL
EmailUniqueViolation(row) == \E r \in users : r.email = row.email

\* CHECK (oauth_provider IN ('google', 'microsoft', 'apple', 'meta'))
ProviderCheckViolation(row) == row.oauth_provider \notin AllowedProviders

\* CHECK (privacy_settings ? ...) and CHECK (notification_preferences ? ...)
ProfileCheckViolation(privacyKeys, notificationKeys) ==
  ~ (PrivacyKeys \subseteq privacyKeys /\ NotificationKeys \subseteq notificationKeys)

\* crypto.randomUUID(): a value no row carries yet
NewUserId == Cardinality(users) + 1

\* array_agg(DISTINCT r.name) over the LEFT JOIN: one NULL when no role row
ArrayAgg(roleSet) == IF roleSet = {} THEN {NullRole} ELSE roleSet

\* ------------------------------------------------------------ bookkeeping
CanFault == faults < MaxFaults

\* variant: the catch block throws the error it caught
FederateRethrows(cause) == cause

\* handleOAuthCallback: catch (error) { throw new Error('Authentication failed') }
FederateThrows(cause) == "AuthenticationFailed"

\* refreshToken: catch (error) { throw new Error('Invalid refresh token') }
RefreshThrows(cause) == "InvalidRefreshToken"

\* the handler suspends at its next await
Goto(p, label, r, l) ==
  /\ pc' = [pc EXCEPT ![p] = label]
  /\ req' = [req EXCEPT ![p] = r]
  /\ loc' = [loc EXCEPT ![p] = l]
  /\ res' = [res EXCEPT ![p] = NoRes]

\* the handler returns or throws: its locals die, its outcome stays visible
Finish(p, r) ==
  /\ pc' = [pc EXCEPT ![p] = "idle"]
  /\ req' = [req EXCEPT ![p] = NoReq]
  /\ loc' = [loc EXCEPT ![p] = NoLoc]
  /\ res' = [res EXCEPT ![p] = r]

Fail(p, op, status) == Finish(p, [NoRes EXCEPT !.op = op, !.status = status])

\* a storage or cache round trip fails
Fault(p, op, status) ==
  /\ CanFault
  /\ faults' = faults + 1
  /\ Fail(p, op, status)

\* ------------------------------------------------- AuthService.generateTokens
\* Signs both tokens with the current second as iat and overwrites the
\* per-user cache entry; the single await is redis.setex.
GenerateTokens(p, op, user, isNew) ==
  LET at == SignAccess(user, now)
      rt == SignRefresh(user, now)
  IN  /\ cache' = [cache EXCEPT ![user.id] = [token |-> rt, expireAt |-> now + RefreshCacheTTL]]
      /\ issued' = issued \cup {at, rt}
      /\ Finish(p, [NoRes EXCEPT !.op = op, !.status = "ok", !.userId = user.id,
                                 !.isNewUser = isNew, !.refreshToken = rt, !.accessToken = at])

\* ------------------------------------------- AuthService.handleOAuthCallback
\* the user id an earlier successful federate call returned for this identity
FederatedBefore(profile) ==
  IF \E d \in fedDone : d.provider = profile.provider /\ d.id = profile.id
  THEN (CHOOSE d \in fedDone : d.provider = profile.provider /\ d.id = profile.id).userId
  ELSE 0

\* the profile, when the lookup finds no row for its identity
FirstSight(profile) ==
  IF FindByOAuth(profile.provider, profile.id) = {} THEN profile ELSE NoProfile

\* variant: isNewUser starts out true and is never cleared
ExistingUserFlaggedNew(rows) == [NoLoc EXCEPT !.user = CHOOSE u \in rows : TRUE, !.isNewUser = TRUE]

\* let isNewUser = false; if (rows.length > 0) user = existingUserResult.rows[0]
ExistingUser(rows) == [NoLoc EXCEPT !.user = CHOOSE u \in rows : TRUE]

\* SELECT * FROM users WHERE oauth_provider = $1 AND oauth_id = $2
FedLookup(p, profile) ==
  /\ pc[p] = "idle"
  /\ flags' = [flags EXCEPT ![p] = [NoFlags EXCEPT !.sawOk = FederatedBefore(profile),
                                                    !.firstSight = FirstSight(profile)]]
  /\ LET rows == FindByOAuth(profile.provider, profile.id)
         r == [NoReq EXCEPT !.op = "federate", !.profile = profile]
     IN  \/ /\ rows # {}
            /\ Goto(p, "fed_update", r, ExistingUser(rows))
            /\ UNCHANGED faults
         \/ /\ rows = {}
            /\ Goto(p, "fed_insert", r, [NoLoc EXCEPT !.isNewUser = TRUE])
            /\ UNCHANGED faults
         \/ Fault(p, "federate", FederateThrows("DatabaseError"))
  /\ UNCHANGED <<mfaVars, dbVars, cache, now, ticks, migVars, histVars>>

\* UPDATE users SET last_active_at = NOW(), updated_at = NOW() WHERE id = $1
FedUpdate(p) ==
  /\ pc[p] = "fed_update"
  /\ \/ /\ Goto(p, "fed_tokens", req[p], loc[p])
        /\ UNCHANGED faults
     \/ Fault(p, "federate", FederateThrows("DatabaseError"))
  /\ UNCHANGED <<mfaVars, dbVars, cache, now, ticks, migVars, flags, histVars>>

\* INSERT INTO users (...) VALUES ($1, $2, $3, $4, 'free', ..., true) RETURNING *
FedInsert(p) ==
  /\ pc[p] = "fed_insert"
  /\ LET profile == req[p].profile
         row == [id |-> NewUserId, email |-> profile.email,
                 oauth_provider |-> profile.provider, oauth_id |-> profile.id,
                 is_active |-> TRUE]
         violation == \/ OAuthUniqueViolation(row)
                      \/ EmailUniqueViolation(row)
                      \/ ProviderCheckViolation(row)
     IN  \/ /\ ~ violation
            /\ users' = users \cup {row}
            /\ Goto(p, "fed_profile", req[p], [loc[p] EXCEPT !.user = row])
            /\ UNCHANGED <<flags, faults>>
         \/ /\ violation
            /\ flags' = [flags EXCEPT ![p].hitDup = OAuthUniqueViolation(row)]
            /\ Fail(p, "federate", FederateThrows("UniqueViolation"))
            /\ UNCHANGED <<users, faults>>
         \/ /\ Fault(p, "federate", FederateThrows("DatabaseError"))
            /\ UNCHANGED <<users, flags>>
  /\ UNCHANGED <<mfaVars, profiles, userRoles, cache, now, ticks, migVars, histVars>>

\* AuthService.createUserProfile: INSERT INTO user_profiles with
\* privacy_settings = JSON.stringify({}), notification_preferences = JSON.stringify({})
FedProfile(p) ==
  /\ pc[p] = "fed_profile"
  /\ \/ /\ ~ ProfileCheckViolation({}, {})
        /\ profiles' = profiles \cup {loc[p].user.id}
        /\ Goto(p, "fed_tokens", req[p], loc[p])
        /\ UNCHANGED faults
     \/ /\ ProfileCheckViolation({}, {})
        /\ Fail(p, "federate", FederateThrows("CheckViolation"))
        /\ UNCHANGED <<profiles, faults>>
     \/ /\ Fault(p, "federate", FederateThrows("DatabaseError"))
        /\ UNCHANGED profiles
  /\ UNCHANGED <<mfaVars, users, userRoles, cache, now, ticks, migVars, flags, histVars>>

\* const tokens = await this.generateTokens(user); return {user, tokens, isNewUser}
FedTokens(p) ==
  /\ pc[p] = "fed_tokens"
  /\ LET user == loc[p].user
         profile == req[p].profile
     IN  \/ /\ GenerateTokens(p, "federate", user, loc[p].isNewUser)
            /\ fedDone' = fedDone \cup
                 {[provider |-> profile.provider, id |-> profile.id, userId |-> user.id]}
            /\ revokedToks' = [revokedToks EXCEPT ![user.id] = {}]
            /\ flags' = [q \in Procs |->
                 IF req[q].op = "refresh" /\ req[q].token.userId = user.id
                 THEN [flags[q] EXCEPT !.afterLogout = FALSE]
                 ELSE IF req[q].op = "logout" /\ req[q].userId = user.id
                 THEN [flags[q] EXCEPT !.snap = {}]
                 ELSE flags[q]]
            /\ UNCHANGED <<faults, consumed>>
         \/ /\ Fault(p, "federate", FederateThrows("RedisError"))
            /\ UNCHANGED <<cache, flags, issued, consumed, fedDone, revokedToks>>
  /\ UNCHANGED <<mfaVars, dbVars, now, ticks, migVars, revokedRoles>>

\* --------------------------------------------------- AuthService.refreshToken
\* variant: any live cache entry for the user is taken as a match
StoredMatchesAnyEntry(tok) == CacheGet(tok.userId) # NoToken

\* if (storedToken !== refreshToken) throw
StoredMatches(tok) == CacheGet(tok.userId) = tok

\* if (decoded.type !== 'refresh') throw
IsRefreshType(tok) == tok.kind = "refresh"

\* the token is the stored refresh token of a user whose row has
\* is_active = false
Deactivated(tok) ==
  /\ CacheGet(tok.userId) = tok
  /\ FindById(tok.userId) # {}
  /\ FindActiveById(tok.userId) = {}

\* what refreshToken requires before it looks the user up
RefreshAccepts(tok) ==
  /\ JwtVerify(tok, now)
  /\ IsRefreshType(tok)
  /\ StoredMatches(tok)

\* jwt.verify, the type check and redis.get(`refresh_token:${decoded.userId}`)
RefreshCheck(p, tok) ==
  /\ pc[p] = "idle"
  /\ flags' = [flags EXCEPT ![p] =
        [NoFlags EXCEPT !.matched = IF RefreshAccepts(tok) THEN tok ELSE NoToken,
                        !.inactiveAt = Deactivated(tok),
                        !.afterConsumed = (tok \in consumed),
                        !.afterLogout = (tok.userId \in UserIds /\ tok \in revokedToks[tok.userId])]]
  /\ \/ /\ RefreshAccepts(tok)
        /\ Goto(p, "ref_user", [NoReq EXCEPT !.op = "refresh", !.token = tok], NoLoc)
        /\ UNCHANGED faults
     \/ /\ ~ RefreshAccepts(tok)
        /\ Fail(p, "refresh", RefreshThrows("TokenRejected"))
        /\ UNCHANGED faults
     \/ /\ JwtVerify(tok, now)
        /\ IsRefreshType(tok)
        /\ Fault(p, "refresh", RefreshThrows("RedisError"))
  /\ UNCHANGED <<mfaVars, dbVars, cache, now, ticks, migVars, histVars>>

\* AuthService.getUserById: SELECT * FROM users WHERE id = $1, null on any error
RefreshGetUser(p) ==
  /\ pc[p] = "ref_user"
  /\ LET rows == FindById(req[p].token.userId)
     IN  \/ /\ rows # {}
            /\ Goto(p, "ref_tokens", req[p], [loc[p] EXCEPT !.user = CHOOSE u \in rows : TRUE])
            /\ UNCHANGED faults
         \/ /\ rows = {}
            /\ Fail(p, "refresh", RefreshThrows("UserNotFound"))
            /\ UNCHANGED faults
         \/ Fault(p, "refresh", RefreshThrows("UserNotFound"))
  /\ UNCHANGED <<mfaVars, dbVars, cache, now, ticks, migVars, flags, histVars>>

\* return await this.generateTokens(user)
RefreshTokens(p) ==
  /\ pc[p] = "ref_tokens"
  /\ \/ /\ GenerateTokens(p, "refresh", loc[p].user, FALSE)
        /\ consumed' = consumed \cup {req[p].token}
        /\ UNCHANGED faults
     \/ /\ Fault(p, "refresh", RefreshThrows("RedisError"))
        /\ UNCHANGED <<cache, issued, consumed>>
  /\ UNCHANGED <<mfaVars, dbVars, now, ticks, migVars, flags, fedDone, revokedToks, revokedRoles>>

\* --------------------------------------------------------- AuthService.logout
\* await redis.del(`refresh_token:${userId}`)
LogoutDel(p, uid) ==
  /\ pc[p] = "idle"
  /\ FindById(uid) # {}
  /\ flags' = [flags EXCEPT ![p] = [NoFlags EXCEPT !.snap = {t \in issued : t.userId = uid}]]
  /\ \/ /\ cache' = [cache EXCEPT ![uid] = NoCache]
        /\ Goto(p, "logout_update", [NoReq EXCEPT !.op = "logout", !.userId = uid], NoLoc)
        /\ UNCHANGED faults
     \/ /\ Fault(p, "logout", "LogoutFailed")
        /\ UNCHANGED cache
  /\ UNCHANGED <<mfaVars, dbVars, now, ticks, migVars, histVars>>

\* UPDATE users SET last_active_at = NOW() WHERE id = $1
LogoutUpdate(p) ==
  /\ pc[p] = "logout_update"
  /\ \/ /\ Finish(p, [NoRes EXCEPT !.op = "logout", !.status = "ok", !.userId = req[p].userId])
        /\ revokedToks' = [revokedToks EXCEPT ![req[p].userId] = flags[p].snap]
        /\ UNCHANGED faults
     \/ /\ Fault(p, "logout", "LogoutFailed")
        /\ UNCHANGED revokedToks
  /\ UNCHANGED <<mfaVars, dbVars, cache, now, ticks, migVars, flags, issued, consumed, fedDone, revokedRoles>>

\* ------------------------------- authenticateToken + AuthService.validateToken
\* variant: the query forgets AND u.is_active = true
SessionUserRowsAnyState(uid) == FindById(uid)

\* SELECT u.*, array_agg(DISTINCT r.name) ... WHERE u.id = $1 AND u.is_active = true
SessionUserRows(uid) == FindActiveById(uid)

\* variant: the session trusts the roles embedded in the token
SessionRolesFromToken(payload, uid) == payload.roles

\* roles: user.roles || []  -- the roles come from the query, not from the payload
SessionRoles(payload, uid) == ArrayAgg(userRoles[uid])

\* INSERT INTO permissions (name, resource, action, description)
Permissions ==
  {[resource |-> "users", action |-> "read"], [resource |-> "users", action |-> "write"],
   [resource |-> "users", action |-> "delete"], [resource |-> "organizations", action |-> "read"],
   [resource |-> "organizations", action |-> "write"],
   [resource |-> "organizations", action |-> "delete"], [resource |-> "roles", action |-> "manage"],
   [resource |-> "analytics", action |-> "read"], [resource |-> "billing", action |-> "manage"],
   [resource |-> "mfa", action |-> "manage"]}

\* INSERT INTO role_permissions: admin holds every permission, user read_users
RolePermissions(role) ==
  CASE role = "admin" -> Permissions
    [] role = "user" -> {[resource |-> "users", action |-> "read"]}
    [] OTHER -> {}

\* permissions: [], // Will be populated based on roles
SessionPermissions(roles) == {}

\* requirePermission(resource, action): permissions.some(perm =>
\* perm.resource === resource && perm.action === action)
RequirePermission(permissions, resource, action) ==
  \E perm \in permissions : perm.resource = resource /\ perm.action = action

\* jwt.verify(token, JWT_SECRET) in the middleware, then validateToken(decoded)
\* what the store held for the token's user when the query ran
StoreAt(uid, faulted) ==
  [NoFlags EXCEPT !.rolesAt = userRoles[uid], !.revokedAt = revokedRoles[uid],
                  !.activeAt = (\E r \in users : r.id = uid /\ r.is_active),
                  !.fault = faulted]

Validate(p, tok) ==
  /\ pc[p] = "idle"
  /\ \/ /\ ~ JwtVerify(tok, now)
        /\ Fail(p, "validate", "unauthorized")
        /\ flags' = [flags EXCEPT ![p] = NoFlags]
        /\ UNCHANGED faults
     \/ /\ JwtVerify(tok, now)
        /\ SessionUserRows(tok.userId) = {}
        /\ Finish(p, [NoRes EXCEPT !.op = "validate", !.status = "null",
                                   !.userId = tok.userId, !.accessToken = tok])
        /\ flags' = [flags EXCEPT ![p] = StoreAt(tok.userId, FALSE)]
        /\ UNCHANGED faults
     \/ /\ JwtVerify(tok, now)
        /\ SessionUserRows(tok.userId) # {}
        /\ Finish(p, [NoRes EXCEPT !.op = "validate", !.status = "session",
                                   !.userId = tok.userId, !.accessToken = tok,
                                   !.roles = SessionRoles(tok, tok.userId),
                                   !.permissions =
                                     SessionPermissions(SessionRoles(tok, tok.userId))])
        /\ flags' = [flags EXCEPT ![p] = StoreAt(tok.userId, FALSE)]
        /\ UNCHANGED faults
     \/ /\ JwtVerify(tok, now)
        /\ CanFault
        /\ faults' = faults + 1
        /\ Finish(p, [NoRes EXCEPT !.op = "validate", !.status = "null",
                                   !.userId = tok.userId, !.accessToken = tok])
        /\ flags' = [flags EXCEPT ![p] = StoreAt(tok.userId, TRUE)]
  /\ UNCHANGED <<mfaVars, dbVars, cache, now, ticks, migVars, histVars>>

\* ------------------------------------------------- administration and clock
\* INSERT INTO user_roles (user_id, role_id), UNIQUE(user_id, role_id)
AssignRole(uid, r) ==
  /\ FindById(uid) # {}
  /\ r \notin userRoles[uid]
  /\ userRoles' = [userRoles EXCEPT ![uid] = @ \cup {r}]
  /\ revokedRoles' = [revokedRoles EXCEPT ![uid] = @ \ {r}]
  /\ UNCHANGED <<mfaVars, users, profiles, cache, now, ticks, migVars, faults, pc, req, loc, res, flags,
                 issued, consumed, fedDone, revokedToks>>

\* DELETE FROM user_roles WHERE user_id = $1 AND role_id = $2
RevokeRole(uid, r) ==
  /\ r \in userRoles[uid]
  /\ userRoles' = [userRoles EXCEPT ![uid] = @ \ {r}]
  /\ revokedRoles' = [revokedRoles EXCEPT ![uid] = @ \cup {r}]
  /\ UNCHANGED <<mfaVars, users, profiles, cache, now, ticks, migVars, faults, pc, req, loc, res, flags,
                 issued, consumed, fedDone, revokedToks>>

\* UPDATE users SET is_active = false WHERE id = $1
Deactivate(uid) ==
  /\ \E r \in users : r.id = uid /\ r.is_active
  /\ users' = {IF r.id = uid THEN [r EXCEPT !.is_active = FALSE] ELSE r : r \in users}
  /\ UNCHANGED <<mfaVars, profiles, userRoles, cache, now, ticks, migVars, faults, pc, req, loc, res, flags, histVars>>

\* Date.now() moves on
Tick(d) ==
  /\ ticks < MaxTicks
  /\ now' = now + d
  /\ ticks' = ticks + 1
  /\ UNCHANGED <<mfaVars, dbVars, cache, faults, pc, req, loc, res, flags, histVars, migVars>>

\* ------------------------------------------------------------- speakeasy
\* the counter of the time-step that holds second t
Counter(t) == t \div TotpStep

\* the one-time code of a secret for one counter value
Totp(secret, k) == secret * 100 + k

\* speakeasy.totp.verify({secret, token, window: 2}): the token is the code
\* of one of the counters current - window .. current + window
TotpVerify(secret, code, t) ==
  \E k \in (Counter(t) - TotpWindow)..(Counter(t) + TotpWindow) :
    k >= 0 /\ secret # 0 /\ Totp(secret, k) = code

\* ------------------------------------------------------------ backup codes
\* a backup code is an upper-case string; -c stands for c typed in lower case
ToUpperCase(code) == IF code < 0 THEN 0 - code ELSE code

\* Math.random().toString(36).substring(2, 8).toUpperCase(), ten times:
\* independent draws, which may or may not repeat a value of the same list
\* or of the list drawn before it
BackupDraws(gen) ==
  { [i \in 1..BackupCodeCount |-> 1000 * gen + i],
    [i \in 1..BackupCodeCount |-> 1000 * gen + (IF i = 2 THEN 1 ELSE i)] }
  \cup (IF gen > 1
        THEN { [i \in 1..BackupCodeCount |-> 1000 * (IF i = 1 THEN gen - 1 ELSE gen) + i] }
        ELSE {})

Includes(codes, code) == \E i \in DOMAIN codes : codes[i] = code

\* backupCodes.filter(code => code !== token.toUpperCase())
RECURSIVE FilterOut(_, _)
FilterOut(codes, code) ==
  IF codes = <<>> THEN <<>>
  ELSE IF Head(codes) = code THEN FilterOut(Tail(codes), code)
       ELSE <<Head(codes)>> \o FilterOut(Tail(codes), code)

\* ------------------------------------------------------ redis replay markers
MarkerLive(uid, code) ==
  \E m \in markers : m.userId = uid /\ m.token = code /\ now < m.expireAt

\* redis.setex(key, ttl, 'used') replaces the key and restarts its expiry
MarkerSet(uid, code, ttl) ==
  {m \in markers : ~ (m.userId = uid /\ m.token = code)}
    \cup {[userId |-> uid, token |-> code, expireAt |-> now + ttl]}

\* ------------------------------------------------------ routes/mfa.ts gate
\* variant: requireRole(['admin']) is put on every route of the router
GatedOpsEveryRoute == {"setup", "enable", "verify", "disable", "status", "regenerate"}

GatedOps == {"setup", "enable", "disable", "regenerate"}

\* variant: the role middleware lets every authenticated request through
RequireRoleOmitted(sessionRoles, required) == TRUE

\* variant: every required role must be held
RequireRoleEvery(sessionRoles, required) == \A r \in required : r \in sessionRoles

\* requireRole(roles): roles.some(role => userRoles.includes(role))
RequireRole(sessionRoles, required) == \E r \in required : r \in sessionRoles

FirstLabel(op) ==
  CASE op = "setup" -> "setup_user"
    [] op = "enable" -> "enable_select"
    [] op = "verify" -> "verify_select"
    [] op = "disable" -> "verify_select"
    [] op = "regenerate" -> "verify_select"
    [] op = "status" -> "status_select"
    [] OTHER -> "idle"

\* the request before this one, in the same second, was a successful
\* enable of the same user with the same code
JustEnabledWith(p, uid, code) ==
  /\ res[p].op = "enable" /\ res[p].status = "ok"
  /\ res[p].userId = uid /\ res[p].code = code /\ res[p].doneAt = now

\* the request before this one was a verify of the same user that accepted
\* the same string, in either case, as a backup code
JustConsumedBackup(p, uid, code) ==
  /\ res[p].op = "verify" /\ res[p].isValid /\ res[p].path = "backup"
  /\ res[p].userId = uid /\ ToUpperCase(res[p].code) = ToUpperCase(code)

\* an enable request, and the request before it was a successful disable of
\* the same user
EnableAfterDisable(p, op, uid) ==
  /\ op = "enable"
  /\ res[p].op = "disable" /\ res[p].status = "ok" /\ res[p].userId = uid

\* router.use(authenticateToken), requireRole(['admin']) on the gated routes,
\* then the handler calls the service with req.user.userId and req.body.token
MfaRoute(p, op, uid, code) ==
  /\ pc[p] = "idle"
  /\ op \in {"setup", "regenerate"} => secrets < MaxSecrets
  /\ LET seen == [NoFlags EXCEPT !.afterUsed = (<<uid, code>> \in totpUsed),
                                 !.afterEnable = JustEnabledWith(p, uid, code),
                                 !.afterBackup = JustConsumedBackup(p, uid, code),
                                 !.afterDisable = EnableAfterDisable(p, op, uid),
                                 !.uid = uid,
                                 !.code = code,
                                 !.rolesAt = userRoles[uid],
                                 !.activeAt = (SessionUserRows(uid) # {}),
                                 !.mfaAt = mfa[uid],
                                 !.markersAt = markers]
     IN  \/ /\ SessionUserRows(uid) = {}
            /\ Fail(p, op, "unauthorized")
            /\ flags' = [flags EXCEPT ![p] = seen]
            /\ UNCHANGED faults
         \/ /\ SessionUserRows(uid) # {}
            /\ op \in GatedOps
            /\ ~ RequireRole(SessionRoles(NoToken, uid), {"admin"})
            /\ Fail(p, op, "Forbidden")
            /\ flags' = [flags EXCEPT ![p] = seen]
            /\ UNCHANGED faults
         \/ /\ SessionUserRows(uid) # {}
            /\ op \in GatedOps => RequireRole(SessionRoles(NoToken, uid), {"admin"})
            /\ Goto(p, FirstLabel(op), [NoReq EXCEPT !.op = op, !.userId = uid, !.code = code], NoLoc)
            /\ flags' = [flags EXCEPT ![p] = seen]
            /\ UNCHANGED faults
         \/ /\ Fault(p, op, "unauthorized")
            /\ flags' = [flags EXCEPT ![p] = [seen EXCEPT !.fault = TRUE]]
  /\ UNCHANGED <<mfaVars, dbVars, cache, now, ticks, migVars, histVars>>

\* ------------------------------------------------------- MFAService.setupMFA
\* user query with array_agg(r.name), the admin check, speakeasy.generateSecret
SetupUser(p) ==
  /\ pc[p] = "setup_user"
  /\ LET uid == req[p].userId
     IN  \/ /\ FindById(uid) = {}
            /\ Fail(p, "setup", "UserNotFound")
            /\ UNCHANGED <<faults, secrets>>
         \/ /\ FindById(uid) # {}
            /\ "admin" \notin ArrayAgg(userRoles[uid])
            /\ Fail(p, "setup", "AdminOnly")
            /\ UNCHANGED <<faults, secrets>>
         \/ /\ FindById(uid) # {}
            /\ "admin" \in ArrayAgg(userRoles[uid])
            /\ secrets' = secrets + 1
            /\ Goto(p, "setup_insert", req[p], [NoLoc EXCEPT !.mfaSetup.secret = secrets + 1])
            /\ UNCHANGED faults
         \/ /\ Fault(p, "setup", "StorageError")
            /\ UNCHANGED secrets
  /\ UNCHANGED <<mfa, markers, totpUsed, dbVars, cache, now, ticks, migVars, flags, histVars>>

\* variant: the upsert leaves is_enabled of an existing row alone
UpsertedRowKeepsEnabled(old, secret, codes) ==
  [secret |-> secret, backup_codes |-> codes, is_enabled |-> old.is_enabled]

\* VALUES ($1, $2, $3, $4, false, ...) ON CONFLICT (user_id) DO UPDATE SET
\* secret = $3, backup_codes = $4, is_enabled = false
UpsertedRow(old, secret, codes) ==
  [secret |-> secret, backup_codes |-> codes, is_enabled |-> FALSE]

\* INSERT INTO user_mfa ... ON CONFLICT (user_id) DO UPDATE SET secret,
\* backup_codes, is_enabled = false; return { secret, qrCodeUrl, backupCodes }
SetupInsert(p) ==
  /\ pc[p] = "setup_insert"
  /\ \/ /\ \E codes \in BackupDraws(loc[p].mfaSetup.secret) :
             /\ mfa' = [mfa EXCEPT ![req[p].userId] =
                         UpsertedRow(@, loc[p].mfaSetup.secret, codes)]
             /\ Finish(p, [NoRes EXCEPT !.op = "setup", !.status = "ok",
                                        !.userId = req[p].userId, !.backupCodes = codes])
        /\ UNCHANGED faults
     \/ /\ Fault(p, "setup", "StorageError")
        /\ UNCHANGED mfa
  /\ UNCHANGED <<markers, secrets, totpUsed, dbVars, cache, now, ticks, migVars, flags, histVars>>

\* ------------------------------------------------------ MFAService.enableMFA
\* variant: the result of the code check is not looked at
EnableAcceptsAny(row, code, t) == TRUE

\* const verified = speakeasy.totp.verify(...); if (!verified) throw
EnableAccepts(row, code, t) == TotpVerify(row.secret, code, t)

\* SELECT * FROM user_mfa WHERE user_id = $1, then speakeasy.totp.verify
EnableSelect(p) ==
  /\ pc[p] = "enable_select"
  /\ LET row == mfa[req[p].userId]
     IN  \/ /\ row.secret = 0
            /\ Fail(p, "enable", "MfaNotSetUp")
            /\ UNCHANGED faults
         \/ /\ row.secret # 0
            /\ ~ EnableAccepts(row, req[p].code, now)
            /\ Fail(p, "enable", "InvalidMFAToken")
            /\ UNCHANGED faults
         \/ /\ row.secret # 0
            /\ EnableAccepts(row, req[p].code, now)
            /\ Goto(p, "enable_update", req[p], [NoLoc EXCEPT !.mfaSetup = row])
            /\ UNCHANGED faults
         \/ Fault(p, "enable", "StorageError")
  /\ UNCHANGED <<mfaVars, dbVars, cache, now, ticks, migVars, flags, histVars>>

\* UPDATE user_mfa SET is_enabled = true WHERE user_id = $1
EnableUpdate(p) ==
  /\ pc[p] = "enable_update"
  /\ \/ /\ mfa' = [mfa EXCEPT ![req[p].userId] =
                     IF @.secret # 0 THEN [@ EXCEPT !.is_enabled = TRUE] ELSE @]
        /\ Finish(p, [NoRes EXCEPT !.op = "enable", !.status = "ok", !.userId = req[p].userId,
                                   !.code = req[p].code, !.doneAt = now])
        /\ UNCHANGED faults
     \/ /\ Fault(p, "enable", "StorageError")
        /\ UNCHANGED mfa
  /\ UNCHANGED <<markers, secrets, totpUsed, dbVars, cache, now, ticks, migVars, flags, histVars>>

\* ------------------------------------------------------ MFAService.verifyMFA
\* verifyMFA returns { userId, token, isValid } to its caller: the /verify
\* route, or disableMFA / regenerateBackupCodes, which throw 'Invalid MFA
\* token' on isValid false and go on to their UPDATE otherwise
VerifyReturns(p, valid, path) ==
  IF req[p].op = "verify"
  THEN Finish(p, [NoRes EXCEPT !.op = "verify", !.status = "ok", !.userId = req[p].userId,
                               !.isValid = valid, !.code = req[p].code, !.path = path])
  ELSE IF valid
       THEN Goto(p, IF req[p].op = "disable" THEN "disable_update" ELSE "regen_update",
                 req[p], [NoLoc EXCEPT !.path = path])
       ELSE Finish(p, [NoRes EXCEPT !.op = req[p].op, !.status = "InvalidMFAToken",
                                    !.userId = req[p].userId, !.code = req[p].code])

Verdict(p, valid) == VerifyReturns(p, valid, IF valid THEN "totp" ELSE "none")

\* return { userId, token, isValid: true } of the backup-code branch
BackupVerdict(p) == VerifyReturns(p, TRUE, "backup")

\* getMFAStatus: backupCodesRemaining = backupCodes.length of the stored row
BackupCodesRemaining(row) == Len(row.backup_codes)

\* variant: the query leaves out AND is_enabled = true
SelectsAnyRow(row) == row.secret # 0

\* WHERE user_id = $1 AND is_enabled = true gives a row
SelectsEnabledRow(row) == row.secret # 0 /\ row.is_enabled

\* SELECT * FROM user_mfa WHERE user_id = $1 AND is_enabled = true, then the
\* backup-code test on the row just read
VerifySelect(p) ==
  /\ pc[p] = "verify_select"
  /\ LET row == mfa[req[p].userId]
         found == SelectsEnabledRow(row)
     IN  \/ /\ ~ found
            /\ Verdict(p, FALSE)
            /\ UNCHANGED faults
         \/ /\ found
            /\ Includes(row.backup_codes, ToUpperCase(req[p].code))
            /\ Goto(p, "verify_backup", req[p], [NoLoc EXCEPT !.mfaSetup = row])
            /\ UNCHANGED faults
         \/ /\ found
            /\ ~ Includes(row.backup_codes, ToUpperCase(req[p].code))
            /\ Goto(p, "verify_marker", req[p], [NoLoc EXCEPT !.mfaSetup = row])
            /\ UNCHANGED faults
         \/ /\ CanFault
            /\ faults' = faults + 1
            /\ Verdict(p, FALSE)
  /\ UNCHANGED <<mfaVars, dbVars, cache, now, ticks, migVars, flags, histVars>>

\* UPDATE user_mfa SET backup_codes = $1 with the filtered copy of the row read
VerifyBackup(p) ==
  /\ pc[p] = "verify_backup"
  /\ \/ /\ mfa' = [mfa EXCEPT ![req[p].userId] =
                     IF @.secret # 0
                     THEN [@ EXCEPT !.backup_codes =
                             FilterOut(loc[p].mfaSetup.backup_codes, ToUpperCase(req[p].code))]
                     ELSE @]
        /\ BackupVerdict(p)
        /\ UNCHANGED faults
     \/ /\ CanFault
        /\ faults' = faults + 1
        /\ Verdict(p, FALSE)
        /\ UNCHANGED mfa
  /\ UNCHANGED <<markers, secrets, totpUsed, dbVars, cache, now, ticks, migVars, flags, histVars>>

\* redis.get(`mfa_token:${userId}:${token}`), then speakeasy.totp.verify
VerifyMarker(p) ==
  /\ pc[p] = "verify_marker"
  /\ LET uid == req[p].userId
         code == req[p].code
     IN  \/ /\ MarkerLive(uid, code)
            /\ Verdict(p, FALSE)
            /\ UNCHANGED faults
         \/ /\ ~ MarkerLive(uid, code)
            /\ ~ TotpVerify(loc[p].mfaSetup.secret, code, now)
            /\ Verdict(p, FALSE)
            /\ UNCHANGED faults
         \/ /\ ~ MarkerLive(uid, code)
            /\ TotpVerify(loc[p].mfaSetup.secret, code, now)
            /\ Goto(p, "verify_setex", req[p], loc[p])
            /\ UNCHANGED faults
         \/ /\ CanFault
            /\ faults' = faults + 1
            /\ Verdict(p, FALSE)
  /\ UNCHANGED <<mfaVars, dbVars, cache, now, ticks, migVars, flags, histVars>>

\* redis.setex(tokenKey, 90, 'used'); return { isValid: verified }
VerifySetex(p) ==
  /\ pc[p] = "verify_setex"
  /\ \/ /\ markers' = MarkerSet(req[p].userId, req[p].code, ReplayMarkerTTL)
        /\ totpUsed' = totpUsed \cup {<<req[p].userId, req[p].code>>}
        /\ Verdict(p, TRUE)
        /\ UNCHANGED faults
     \/ /\ CanFault
        /\ faults' = faults + 1
        /\ Verdict(p, FALSE)
        /\ UNCHANGED <<markers, totpUsed>>
  /\ UNCHANGED <<mfa, secrets, dbVars, cache, now, ticks, migVars, flags, histVars>>

\* ----------------------------------------------------- MFAService.disableMFA
\* variant: disabling deletes the row
DisabledRowDeleted(row) == NoMfa

\* variant: disabling also wipes the backup codes
DisabledRowErased(row) == [row EXCEPT !.is_enabled = FALSE, !.backup_codes = <<>>]

\* SET is_enabled = false, updated_at = NOW()
DisabledRow(row) == [row EXCEPT !.is_enabled = FALSE]

\* after verifyMFA: UPDATE user_mfa SET is_enabled = false WHERE user_id = $1
DisableUpdate(p) ==
  /\ pc[p] = "disable_update"
  /\ \/ /\ mfa' = [mfa EXCEPT ![req[p].userId] =
                     IF @.secret # 0 THEN DisabledRow(@) ELSE @]
        /\ Finish(p, [NoRes EXCEPT !.op = "disable", !.status = "ok", !.userId = req[p].userId,
                                   !.code = req[p].code, !.path = loc[p].path])
        /\ UNCHANGED faults
     \/ /\ Fault(p, "disable", "StorageError")
        /\ UNCHANGED mfa
  /\ UNCHANGED <<markers, secrets, totpUsed, dbVars, cache, now, ticks, migVars, flags, histVars>>

\* ------------------------------------------ MFAService.regenerateBackupCodes
\* after verifyMFA: ten new draws, UPDATE user_mfa SET backup_codes = $1
RegenUpdate(p) ==
  /\ pc[p] = "regen_update"
  /\ \/ /\ \E codes \in BackupDraws(secrets + 1) :
             /\ mfa' = [mfa EXCEPT ![req[p].userId] =
                         IF @.secret # 0 THEN [@ EXCEPT !.backup_codes = codes] ELSE @]
             /\ Finish(p, [NoRes EXCEPT !.op = "regenerate", !.status = "ok",
                                        !.userId = req[p].userId, !.code = req[p].code,
                                        !.path = loc[p].path, !.backupCodes = codes])
        /\ secrets' = secrets + 1
        /\ UNCHANGED faults
     \/ /\ Fault(p, "regenerate", "StorageError")
        /\ UNCHANGED <<mfa, secrets>>
  /\ UNCHANGED <<markers, totpUsed, dbVars, cache, now, ticks, migVars, flags, histVars>>

\* --------------------------------------------------- MFAService.getMFAStatus
\* SELECT is_enabled, backup_codes FROM user_mfa WHERE user_id = $1; a missing
\* row and a failed query both give { enabled: false, backupCodesRemaining: 0 }
StatusSelect(p) ==
  /\ pc[p] = "status_select"
  /\ LET row == mfa[req[p].userId]
         out == [NoRes EXCEPT !.op = "status", !.status = "ok", !.userId = req[p].userId]
     IN  \/ /\ Finish(p, IF row.secret = 0 THEN out
                         ELSE [out EXCEPT !.enabled = row.is_enabled,
                                          !.backupCodesRemaining = BackupCodesRemaining(row)])
            /\ UNCHANGED faults
         \/ /\ CanFault
            /\ faults' = faults + 1
            /\ Finish(p, out)
  /\ UNCHANGED <<mfaVars, dbVars, cache, now, ticks, migVars, flags, histVars>>

\* one TOTP time-step passes; redis drops the keys whose expiry is reached
MfaTick ==
  /\ ticks < MaxMfaTicks
  /\ now' = now + TotpStep
  /\ ticks' = ticks + 1
  /\ markers' = {m \in markers : now + TotpStep < m.expireAt}
  /\ UNCHANGED <<mfa, secrets, totpUsed, dbVars, cache, faults, pc, req, loc, res, flags, histVars, migVars>>

\* ------------------------------------------------------------ specifications
Presentable == issued \cup {InvalidToken}

Init ==
  /\ MigrationsUnused
  /\ users = {}
  /\ profiles = {}
  /\ userRoles = [u \in UserIds |-> {}]
  /\ cache = [u \in UserIds |-> NoCache]
  /\ now = 0
  /\ ticks = 0
  /\ faults = 0
  /\ mfa = [u \in UserIds |-> NoMfa]
  /\ markers = {}
  /\ secrets = 0
  /\ totpUsed = {}
  /\ pc = [p \in Procs |-> "idle"]
  /\ req = [p \in Procs |-> NoReq]
  /\ loc = [p \in Procs |-> NoLoc]
  /\ res = [p \in Procs |-> NoRes]
  /\ flags = [p \in Procs |-> NoFlags]
  /\ issued = {}
  /\ consumed = {}
  /\ fedDone = {}
  /\ revokedToks = [u \in UserIds |-> {}]
  /\ revokedRoles = [u \in UserIds |-> {}]

Federate(p, profileSet) ==
  \/ \E profile \in profileSet : FedLookup(p, profile)
  \/ FedUpdate(p)
  \/ FedInsert(p)
  \/ FedProfile(p)
  \/ FedTokens(p)

Refresh(p) ==
  \/ \E tok \in Presentable : RefreshCheck(p, tok)
  \/ RefreshGetUser(p)
  \/ RefreshTokens(p)

Logout(p) ==
  \/ \E uid \in UserIds : LogoutDel(p, uid)
  \/ LogoutUpdate(p)

\* concurrent federation of every profile
NextFed ==
  \/ \E p \in Procs : Federate(p, Profiles)

SpecFed == Init /\ [][NextFed]_vars

\* one subject per provider signs in, one request after another
NextFedProviders == \E p \in SessionProcs : Federate(p, ProviderProfiles)

SpecFedProviders == Init /\ [][NextFedProviders]_vars

\* the token service under concurrent requests of one user
Next ==
  \/ \E p \in Procs : Federate(p, {Alice})
  \/ \E p \in Procs : Refresh(p)
  \/ \E p \in Procs : Logout(p)
  \/ \E d \in ClockSteps : Tick(d)

Spec == Init /\ [][Next]_vars

\* one request at a time, with session validation and administration
NextSession ==
  \/ \E p \in SessionProcs : Federate(p, {Alice})
  \/ \E p \in SessionProcs : Refresh(p)
  \/ \E p \in SessionProcs, tok \in Presentable : Validate(p, tok)
  \/ \E uid \in UserIds, r \in RoleNames : AssignRole(uid, r)
  \/ \E uid \in UserIds, r \in RoleNames : RevokeRole(uid, r)
  \/ \E uid \in UserIds : Deactivate(uid)
  \/ \E d \in ExpirySteps : Tick(d)

SpecSession == Init /\ [][NextSession]_vars

\* the i-th backup code of random generation number gen (a provisioning or a
\* regeneration), when the draws did not repeat
HandedCode(gen, i) == 1000 * gen + i

TypedCounters == {1}
JunkCodes == {99}

\* the codes a client can type: the one-time code its authenticator, clock one
\* time-step ahead, showed at the start; the first backup code of every list
\* handed out so far, the very first also typed in lower case; and junk
TypedCodes(uid) ==
  (IF mfa[uid].secret = 0 THEN {}
   ELSE {Totp(mfa[uid].secret, k) : k \in TypedCounters}
          \cup {HandedCode(g, 1) : g \in 1..secrets}
          \cup {0 - HandedCode(1, 1)})
    \cup JunkCodes

\* an administrator exists: federated earlier and granted the admin role
InitMfa ==
  /\ MigrationsUnused
  /\ mfa = [u \in UserIds |-> NoMfa]
  /\ markers = {}
  /\ secrets = 0
  /\ totpUsed = {}
  /\ users = {[id |-> 1, email |-> Alice.email, oauth_provider |-> Alice.provider,
               oauth_id |-> Alice.id, is_active |-> TRUE]}
  /\ profiles = {}
  /\ userRoles = [u \in UserIds |-> IF u = 1 THEN {"admin"} ELSE {}]
  /\ cache = [u \in UserIds |-> NoCache]
  /\ now = 0
  /\ ticks = 0
  /\ faults = 0
  /\ pc = [p \in Procs |-> "idle"]
  /\ req = [p \in Procs |-> NoReq]
  /\ loc = [p \in Procs |-> NoLoc]
  /\ res = [p \in Procs |-> NoRes]
  /\ flags = [p \in Procs |-> NoFlags]
  /\ issued = {}
  /\ consumed = {}
  /\ fedDone = {}
  /\ revokedToks = [u \in UserIds |-> {}]
  /\ revokedRoles = [u \in UserIds |-> {}]

Setup(p) ==
  \/ MfaRoute(p, "setup", 1, 0)
  \/ SetupUser(p)
  \/ SetupInsert(p)

Enable(p) ==
  \/ \E code \in TypedCodes(1) : MfaRoute(p, "enable", 1, code)
  \/ EnableSelect(p)
  \/ EnableUpdate(p)

Verify(p) ==
  \/ \E code \in TypedCodes(1) : MfaRoute(p, "verify", 1, code)
  \/ VerifySelect(p)
  \/ VerifyBackup(p)
  \/ VerifyMarker(p)
  \/ VerifySetex(p)

\* the second factor of one administrator, one request after another
NextMfa ==
  \/ \E p \in SessionProcs : Setup(p)
  \/ \E p \in SessionProcs : Enable(p)
  \/ \E p \in SessionProcs : Verify(p)
  \/ MfaTick

SpecMfa == InitMfa /\ [][NextMfa]_vars

TypedBackupCodes(uid) == {HandedCode(g, i) : g \in 1..secrets, i \in {1, 2}}

VerifyBackupCode(p) ==
  \/ \E code \in TypedBackupCodes(1) : MfaRoute(p, "verify", 1, code)
  \/ VerifySelect(p)
  \/ VerifyBackup(p)
  \/ VerifyMarker(p)

Disable(p) ==
  \/ \E code \in TypedCodes(1) : MfaRoute(p, "disable", 1, code)
  \/ DisableUpdate(p)

Regenerate(p) ==
  \/ \E code \in TypedCodes(1) : MfaRoute(p, "regenerate", 1, code)
  \/ RegenUpdate(p)

Status(p) ==
  \/ MfaRoute(p, "status", 1, 0)
  \/ StatusSelect(p)

\* the whole MFA surface for one user, one request after another, while the
\* user's admin role is revoked and granted again
NextMfaAdmin ==
  \/ \E p \in SessionProcs : Setup(p)
  \/ \E p \in SessionProcs : Enable(p)
  \/ \E p \in SessionProcs : Verify(p)
  \/ \E p \in SessionProcs : Disable(p)
  \/ \E p \in SessionProcs : Regenerate(p)
  \/ \E p \in SessionProcs : Status(p)
  \/ RevokeRole(1, "admin")
  \/ AssignRole(1, "admin")

SpecMfaAdmin == InitMfa /\ [][NextMfaAdmin]_vars

\* the administrator has provisioned and enabled the second factor
InitMfaRace ==
  /\ MigrationsUnused
  /\ \E codes \in BackupDraws(1) :
       mfa = [u \in UserIds |->
                IF u = 1 THEN [secret |-> 1, backup_codes |-> codes, is_enabled |-> TRUE]
                ELSE NoMfa]
  /\ markers = {}
  /\ secrets = 1
  /\ totpUsed = {}
  /\ users = {[id |-> 1, email |-> Alice.email, oauth_provider |-> Alice.provider,
               oauth_id |-> Alice.id, is_active |-> TRUE]}
  /\ profiles = {}
  /\ userRoles = [u \in UserIds |-> IF u = 1 THEN {"admin"} ELSE {}]
  /\ cache = [u \in UserIds |-> NoCache]
  /\ now = 0
  /\ ticks = 0
  /\ faults = 0
  /\ pc = [p \in Procs |-> "idle"]
  /\ req = [p \in Procs |-> NoReq]
  /\ loc = [p \in Procs |-> NoLoc]
  /\ res = [p \in Procs |-> NoRes]
  /\ flags = [p \in Procs |-> NoFlags]
  /\ issued = {}
  /\ consumed = {}
  /\ fedDone = {}
  /\ revokedToks = [u \in UserIds |-> {}]
  /\ revokedRoles = [u \in UserIds |-> {}]

\* two devices of the administrator send backup codes concurrently; no
\* one-time code is sent, so the marker is never written
NextMfaRace == \E p \in Procs : VerifyBackupCode(p)

SpecMfaRace == InitMfaRace /\ [][NextMfaRace]_vars

\* the administrator asks for new backup codes with the one-time code the
\* authenticator shows
RegenerateWithTotp(p) ==
  \/ \E k \in TypedCounters : MfaRoute(p, "regenerate", 1, Totp(mfa[1].secret, k))
  \/ VerifySelect(p)
  \/ VerifyMarker(p)
  \/ VerifySetex(p)
  \/ RegenUpdate(p)

\* one device sends backup codes while another asks for new ones
NextMfaRegenRace ==
  \/ VerifyBackupCode(1)
  \/ RegenerateWithTotp(2)

SpecMfaRegenRace == InitMfaRace /\ [][NextMfaRegenRace]_vars

\* ------------------------------------------- MFAService called directly
\* user 1 is the administrator, user 2 has no row in users
ServiceUsers == {1, 2}

\* mfaService.setupMFA(userId)
SetupDirect(p, uid) ==
  /\ pc[p] = "idle"
  /\ secrets < MaxSecrets
  /\ Goto(p, "setup_user", [NoReq EXCEPT !.op = "setup", !.userId = uid], NoLoc)
  /\ flags' = [flags EXCEPT ![p] = [NoFlags EXCEPT !.uid = uid, !.mfaAt = mfa[uid],
                                                    !.rolesAt = userRoles[uid]]]
  /\ UNCHANGED <<mfaVars, dbVars, cache, now, ticks, migVars, faults, histVars>>

\* mfaService.getMFAStatus(userId)
StatusDirect(p, uid) ==
  /\ pc[p] = "idle"
  /\ Goto(p, "status_select", [NoReq EXCEPT !.op = "status", !.userId = uid], NoLoc)
  /\ flags' = [flags EXCEPT ![p] = [NoFlags EXCEPT !.uid = uid, !.mfaAt = mfa[uid],
                                                    !.rolesAt = userRoles[uid]]]
  /\ UNCHANGED <<mfaVars, dbVars, cache, now, ticks, migVars, faults, histVars>>

NextMfaService ==
  \/ \E p \in SessionProcs, uid \in ServiceUsers : SetupDirect(p, uid)
  \/ \E p \in SessionProcs : SetupUser(p)
  \/ \E p \in SessionProcs : SetupInsert(p)
  \/ \E p \in SessionProcs, uid \in ServiceUsers : StatusDirect(p, uid)
  \/ \E p \in SessionProcs : StatusSelect(p)
  \/ \E p \in SessionProcs : Enable(p)
  \/ RevokeRole(1, "admin")
  \/ AssignRole(1, "admin")

SpecMfaService == InitMfa /\ [][NextMfaService]_vars

\* ====================================================== access middleware
\* INSERT INTO roles (name, description): the roles a user can hold
SeedRoles == {"admin", "user", "organization_admin"}

\* req.user as authenticateToken leaves it: absent, or the session that
\* validateToken built for a user holding some of the roles
GuardSessions ==
  {NoRes} \cup {[NoRes EXCEPT !.op = "validate", !.status = "session", !.userId = 1,
                              !.roles = ArrayAgg(held),
                              !.permissions = SessionPermissions(ArrayAgg(held))] :
                  held \in SUBSET SeedRoles}

InitGuard ==
  /\ MigrationsUnused
  /\ users = {}
  /\ profiles = {}
  /\ userRoles = [u \in UserIds |-> {}]
  /\ cache = [u \in UserIds |-> NoCache]
  /\ now = 0
  /\ ticks = 0
  /\ faults = 0
  /\ mfa = [u \in UserIds |-> NoMfa]
  /\ markers = {}
  /\ secrets = 0
  /\ totpUsed = {}
  /\ pc = [p \in Procs |-> "idle"]
  /\ req = [p \in Procs |-> NoReq]
  /\ loc = [p \in Procs |-> NoLoc]
  /\ \E session \in GuardSessions : res = [p \in Procs |-> session]
  /\ flags = [p \in Procs |-> NoFlags]
  /\ issued = {}
  /\ consumed = {}
  /\ fedDone = {}
  /\ revokedToks = [u \in UserIds |-> {}]
  /\ revokedRoles = [u \in UserIds |-> {}]

\* the middleware answers 401 or 403, or calls next(); req.user is only read
Answer(p, gate, required, passes) ==
  /\ flags' = [flags EXCEPT ![p] =
                 [NoFlags EXCEPT !.gate = gate, !.required = required, !.userAt = res[p],
                                 !.answer = IF res[p].status # "session" THEN "401"
                                            ELSE IF passes THEN "next" ELSE "403"]]
  /\ UNCHANGED <<mfaVars, dbVars, cache, now, ticks, migVars, faults, pc, req, loc, res,
                 histVars>>

\* requireRole(roles) applied to the request
RequireRoleStep(p, roles) ==
  /\ pc[p] = "idle"
  /\ Answer(p, "requireRole", roles, RequireRole(res[p].roles, roles))

\* requirePermission(resource, action) applied to the request
RequirePermissionStep(p, perm) ==
  /\ pc[p] = "idle"
  /\ Answer(p, "requirePermission", {perm},
            RequirePermission(res[p].permissions, perm.resource, perm.action))

NextGuard ==
  \/ \E roles \in SUBSET SeedRoles : RequireRoleStep(1, roles)
  \/ \E perm \in Permissions : RequirePermissionStep(1, perm)

SpecGuard == InitGuard /\ [][NextGuard]_vars

\* =========================================================== MigrationRunner
authVars == <<mfa, markers, secrets, totpUsed, users, profiles, userRoles, cache, now, ticks,
              faults, pc, req, loc, res, flags, issued, consumed, fedDone, revokedToks,
              revokedRoles>>

Filename(f) == [ts |-> f.ts, rollback |-> f.rollback]

\* files.sort(): by code unit, so by timestamp, and for one timestamp
\* '<name>.rollback.sql' before '<name>.sql'
SortKey(f) == 2 * f.ts + (IF f.rollback THEN 0 ELSE 1)

RECURSIVE Sort(_)
Sort(S) ==
  IF S = {} THEN <<>>
  ELSE LET first == CHOOSE f \in S : \A g \in S : SortKey(f) <= SortKey(g)
       IN  <<first>> \o Sort(S \ {first})

\* variant: the files are taken in the opposite order
LoadMigrationFilesReversed(files) ==
  LET sorted == Sort(files)
  IN  [i \in 1..Len(sorted) |-> sorted[Len(sorted) + 1 - i]]

\* loadMigrationFiles: every file ending in .sql, sorted, id = timestamp
LoadMigrationFiles(files) == Sort(files)

\* getAppliedMigrations: new Set(rows.map(row => row.id))
GetAppliedMigrations(rows) == {r.id : r \in rows}

RECURSIVE Filter(_, _)
Filter(migrations, applied) ==
  IF migrations = <<>> THEN <<>>
  ELSE IF Head(migrations).ts \in applied THEN Filter(Tail(migrations), applied)
       ELSE <<Head(migrations)>> \o Filter(Tail(migrations), applied)

\* variant: nothing is filtered out
PendingMigrationsAll(migrations, applied) == migrations

\* the SQL text of a file: one that runs, or one that raises an error
Sql(f) == IF f.broken THEN "raises" ELSE "runs"

\* calculateChecksum: the SHA-256 digest of the text, in hex
CalculateChecksum(sql) == <<"sha256", sql>>

\* variant: a recorded unit whose text no longer has the recorded checksum is
\* pending again
PendingMigrationsVerified(migrations, applied) ==
  SelectSeq(migrations,
            LAMBDA m : ~ \E r \in schemaMigrations :
                           r.id = m.ts /\ r.checksum = CalculateChecksum(Sql(m)))

\* migrations.filter(migration => !appliedMigrations.has(migration.id))
PendingMigrations(migrations, applied) == Filter(migrations, applied)

\* getMigrationStatus: the files whose id is, and is not, recorded
MigrationStatus ==
  LET all == LoadMigrationFiles(dir)
      ids == GetAppliedMigrations(schemaMigrations)
  IN  [applied |-> {all[i] : i \in {j \in DOMAIN all : all[j].ts \in ids}},
       pending |-> {all[i] : i \in {j \in DOMAIN all : all[j].ts \notin ids}}]

\* BEGIN ... ROLLBACK of DatabaseConnection.transaction
Snapshot == [tables |-> tables, rows |-> schemaMigrations, has |-> hasMigrationsTable]

Restore(snap) ==
  /\ tables' = snap.tables
  /\ schemaMigrations' = snap.rows
  /\ hasMigrationsTable' = snap.has

\* client.query(sql): CREATE TABLE of a forward script raises when the table
\* exists, DROP TABLE IF EXISTS of a rollback script does not
SqlFails(f, tabs) == f.broken \/ (~ f.rollback /\ f.ts \in tabs)
SqlEffect(f, tabs) == IF f.rollback THEN tabs \ {f.ts} ELSE tabs \cup {f.ts}

\* order in which the rows were inserted
NextSeq(rows) == IF rows = {} THEN 1 ELSE 1 + CHOOSE n \in {r.seq : r \in rows} :
                                              \A r \in rows : r.seq <= n

\* INSERT INTO schema_migrations (id, filename, checksum): executed_at takes
\* its DEFAULT NOW(), the start time of the transaction
InsertedRow(f, rows) ==
  [id |-> f.ts, filename |-> Filename(f), checksum |-> CalculateChecksum(Sql(f)),
   executed_at |-> txCount, seq |-> NextSeq(rows)]

\* a developer adds a file to the migrations directory; an inverse script is
\* added next to the script it undoes
AddFile(f) ==
  /\ runner.pc = "idle"
  /\ \A g \in dir : Filename(g) # Filename(f)
  /\ f.rollback => \E g \in dir : g.ts = f.ts /\ ~ g.rollback
  /\ dir' = dir \cup {f}
  /\ UNCHANGED <<migDb, txSnap, txCount, runner, mres, authVars>>

\* a developer changes the text of a file that is in the directory
EditFile(f) ==
  /\ runner.pc = "idle"
  /\ f \in dir
  /\ dir' = (dir \ {f}) \cup {[f EXCEPT !.broken = ~ @]}
  /\ UNCHANGED <<migDb, txSnap, txCount, runner, mres, authVars>>

\* the operation before this one was a run that succeeded, and the
\* directory is as that run found it
JustRan == mres.op = "run" /\ mres.status = "ok" /\ mres.dirAt = dir

\* runMigrations up to the loop: BEGIN, CREATE TABLE IF NOT EXISTS, the
\* applied ids, the sorted files, the pending ones; COMMIT when none is
RunBegin ==
  /\ runner.pc = "idle"
  /\ txCount < MaxTx
  /\ txCount' = txCount + 1
  /\ txSnap' = Snapshot
  /\ hasMigrationsTable' = TRUE
  /\ LET pendingMigrations ==
           PendingMigrations(LoadMigrationFiles(dir), GetAppliedMigrations(schemaMigrations))
     IN  IF pendingMigrations = <<>>
         THEN /\ runner' = NoRunner
              /\ mres' = [NoMres EXCEPT !.op = "run", !.status = "ok", !.before = Snapshot,
                                        !.afterRun = JustRan, !.dirAt = dir]
         ELSE /\ runner' = [NoRunner EXCEPT !.pc = "run_loop", !.pending = pendingMigrations,
                                            !.afterRun = JustRan]
              /\ mres' = NoMres
  /\ UNCHANGED <<dir, tables, schemaMigrations, authVars>>

\* one turn of the loop: executeMigration (the script, then the INSERT);
\* a failure is thrown out of the callback and the transaction rolls back,
\* the end of the loop commits
RunUnit ==
  /\ runner.pc = "run_loop"
  /\ LET migration == Head(runner.pending)
         success == /\ ~ SqlFails(migration, tables)
                    /\ migration.ts \notin GetAppliedMigrations(schemaMigrations)
         results == Append(runner.results, [id |-> migration.ts, success |-> success])
     IN  \/ /\ success
            /\ tables' = SqlEffect(migration, tables)
            /\ schemaMigrations' = schemaMigrations \cup {InsertedRow(migration, schemaMigrations)}
            /\ IF Tail(runner.pending) = <<>>
               THEN /\ runner' = NoRunner
                    /\ mres' = [NoMres EXCEPT !.op = "run", !.status = "ok", !.results = results,
                                              !.executed = Append(runner.executed, migration),
                                              !.before = txSnap,
                                              !.afterRun = runner.afterRun, !.dirAt = dir]
               ELSE /\ runner' = [runner EXCEPT !.pending = Tail(@), !.results = results,
                                                !.executed = Append(@, migration)]
                    /\ mres' = mres
            /\ UNCHANGED hasMigrationsTable
         \/ /\ ~ success
            /\ Restore(txSnap)
            /\ runner' = NoRunner
            /\ mres' = [NoMres EXCEPT !.op = "run", !.status = "MigrationFailed",
                                      !.executed = runner.executed, !.failed = migration,
                                      !.before = txSnap, !.afterRun = runner.afterRun,
                                      !.dirAt = dir]
  /\ UNCHANGED <<dir, txSnap, txCount, authVars>>

\* ORDER BY executed_at DESC LIMIT 1: a row with the greatest executed_at
LastRows(rows) == {r \in rows : \A q \in rows : q.executed_at <= r.executed_at}

\* variant: any inverse script of the directory is taken
RollbackFileOfAnyUnit(row) == {f \in dir : f.rollback}

\* lastMigration.filename.replace('.sql', '.rollback.sql'), read from the
\* migrations directory
RollbackFile(row) ==
  {f \in dir : f.rollback /\ f.ts = row.filename.ts /\ ~ row.filename.rollback}

\* rollbackLastMigration: one transaction around the SELECT, the inverse
\* script and the DELETE; every throw rolls it back
RollbackLast ==
  /\ runner.pc = "idle"
  /\ txCount < MaxTx
  /\ txCount' = txCount + 1
  /\ txSnap' = Snapshot
  /\ \/ /\ ~ hasMigrationsTable
        /\ mres' = [NoMres EXCEPT !.op = "rollback", !.status = "QueryFailed", !.before = Snapshot,
                                  !.dirAt = dir]
        /\ UNCHANGED migDb
     \/ /\ hasMigrationsTable
        /\ schemaMigrations = {}
        /\ mres' = [NoMres EXCEPT !.op = "rollback", !.status = "NoMigrations", !.before = Snapshot,
                                  !.dirAt = dir]
        /\ UNCHANGED migDb
     \/ /\ hasMigrationsTable
        /\ \E lastMigration \in LastRows(schemaMigrations) :
             LET found == RollbackFile(lastMigration)
             IN  IF found = {} \/ \E f \in found : SqlFails(f, tables)
                 THEN /\ mres' = [NoMres EXCEPT !.op = "rollback", !.status = "RollbackInvalid",
                                                !.selected = lastMigration, !.before = Snapshot,
                                                !.dirAt = dir]
                      /\ UNCHANGED migDb
                 ELSE /\ tables' = SqlEffect(CHOOSE f \in found : TRUE, tables)
                      /\ schemaMigrations' = {r \in schemaMigrations : r.id # lastMigration.id}
                      /\ mres' = [NoMres EXCEPT !.op = "rollback", !.status = "ok",
                                                !.selected = lastMigration, !.before = Snapshot,
                                                !.dirAt = dir]
                      /\ UNCHANGED hasMigrationsTable
  /\ UNCHANGED <<dir, runner, authVars>>

NextMig ==
  \/ \E f \in Files : AddFile(f)
  \/ RunBegin
  \/ RunUnit
  \/ RollbackLast

SpecMig == Init /\ [][NextMig]_vars

\* forward scripts that run when they are written
WrittenFiles == {f \in Files : ~ f.rollback /\ ~ f.broken}

\* forward scripts are written, applied, and edited afterwards
NextMigEdit ==
  \/ \E f \in WrittenFiles : AddFile(f)
  \/ \E f \in Files : EditFile(f)
  \/ RunBegin
  \/ RunUnit

SpecMigEdit == Init /\ [][NextMigEdit]_vars

\* ===================================================================== claims
Refreshed(p) == res[p].op = "refresh" /\ res[p].status = "ok"
Federated(p) == res[p].op = "federate" /\ res[p].status = "ok"
RefreshTokensOf(u) == {t \in issued : t.userId = u /\ t.kind = "refresh"}

\* C1: once refresh(t) has succeeded, no refresh that starts later and
\* presents the same token t succeeds.
C1_RefreshRotation ==
  \A p \in Procs : ~ (Refreshed(p) /\ flags[p].afterConsumed)

C3_LogoutRevokes ==
  \A p \in Procs : ~ (Refreshed(p) /\ flags[p].afterLogout)

\* C4: a refresh token presented as the bearer token never yields a Session.
C4_RefreshTokenIsNoBearer ==
  \A p \in Procs :
    ~ (res[p].op = "validate" /\ res[p].status = "session" /\ res[p].accessToken.kind = "refresh")

\* C5: the roles of a Session are the role names the store assigned to the
\* user when the validation query ran: none that was revoked before, and
\* never the role list embedded in the token.
C5_RoleFreshness ==
  \A p \in Procs :
    res[p].op = "validate" /\ res[p].status = "session" =>
      /\ \A r \in RoleNames : r \in res[p].roles <=> r \in flags[p].rolesAt
      /\ res[p].roles \cap flags[p].revokedAt = {}

\* a Session returned for a user who lost one role and kept another
C5_Witness ==
  \E p \in Procs :
    /\ res[p].op = "validate" /\ res[p].status = "session"
    /\ flags[p].revokedAt # {}
    /\ flags[p].rolesAt # {}

\* C6: a validation whose token verifies but whose user is unknown or
\* deactivated, or whose query faults, returns null and nothing else.
C6_NullForInactiveUser ==
  \A p \in Procs :
    res[p].op = "validate" /\ res[p].status # "unauthorized"
      /\ (~ flags[p].activeAt \/ flags[p].fault) => res[p].status = "null"

\* an unexpired token of a deactivated user was validated
C6_Witness ==
  \E p \in Procs :
    /\ res[p].op = "validate" /\ res[p].status = "null"
    /\ ~ flags[p].activeAt /\ ~ flags[p].fault
    /\ \E r \in users : r.id = res[p].userId /\ ~ r.is_active

\* C7: a federate call that starts after a federate call for the same
\* identity has succeeded never takes the create path, and when it returns
\* it returns isNewUser = false and the user id of the first call.
C7_FederationIdempotent ==
  \A p \in Procs :
    flags[p].sawOk # 0 =>
      /\ pc[p] \notin {"fed_insert", "fed_profile"}
      /\ Federated(p) => ~ res[p].isNewUser /\ res[p].userId = flags[p].sawOk

\* a second federate call for an identity has returned
C7_Witness ==
  \E p \in Procs : flags[p].sawOk # 0 /\ Federated(p)

\* C8: no two user rows share (oauth_provider, oauth_id).
C8_OAuthIdentityUnique ==
  \A r1 \in users : \A r2 \in users :
    r1.oauth_provider = r2.oauth_provider /\ r1.oauth_id = r2.oauth_id => r1 = r2

\* two calls missed the lookup for the same identity and the later insert
\* ran into the row of the earlier one
C8_Witness ==
  \E p \in Procs : flags[p].hitDup /\ users # {}

\* C9: the federate call whose insert hits the uniqueness violation falls
\* back to a lookup and succeeds.
C9_DuplicateInsertFallsBack ==
  \A p \in Procs : flags[p].hitDup /\ pc[p] = "idle" => Federated(p)

\* C10: after verify(u, c) has returned true for c as a one-time code, no
\* verify(u, c) that starts later returns true.
C10_TotpSingleUse ==
  \A p \in Procs :
    ~ (res[p].op = "verify" /\ res[p].isValid /\ flags[p].afterUsed)

\* C11: the replay marker of a one-time code that verify accepted is live at
\* every moment at which the TOTP check still accepts that code.
C11_MarkerOutlivesCode ==
  \A uc \in totpUsed :
    TotpVerify(mfa[uc[1]].secret, uc[2], now) => MarkerLive(uc[1], uc[2])

\* C12: a verify that starts right after a successful enable, with the code
\* that enable was given, returns false.
C12_EnableConsumesCode ==
  \A p \in Procs :
    ~ (res[p].op = "verify" /\ res[p].isValid /\ flags[p].afterEnable)

\* the last request of p was a verify that accepted its string as a backup code
BackupAccepted(p) ==
  res[p].op = "verify" /\ res[p].isValid /\ res[p].path = "backup" /\ pc[p] = "idle"

\* C13: one request after another, a verify that accepts X as a backup code
\* leaves the stored list without X and one entry shorter than it was, and a
\* verify that presents X again next returns false.
C13_BackupSingleUse ==
  \A p \in Procs :
    /\ BackupAccepted(p) =>
         /\ ~ Includes(mfa[res[p].userId].backup_codes, ToUpperCase(res[p].code))
         /\ BackupCodesRemaining(mfa[res[p].userId]) = BackupCodesRemaining(flags[p].mfaAt) - 1
    /\ ~ (res[p].op = "verify" /\ res[p].isValid /\ flags[p].afterBackup)

\* C14: under concurrent verify calls no backup code is accepted by two
\* calls, and a code a call has accepted is never in the stored list again.
C14_BackupRemovalAtomic ==
  \A p \in Procs :
    BackupAccepted(p) =>
      /\ ~ Includes(mfa[res[p].userId].backup_codes, ToUpperCase(res[p].code))
      /\ \A q \in Procs \ {p} :
           ~ (/\ BackupAccepted(q)
              /\ res[q].userId = res[p].userId
              /\ ToUpperCase(res[q].code) = ToUpperCase(res[p].code))

\* C15: a provision, enable, disable or regenerate request of a user who does
\* not hold the admin role when the request is authenticated never gets to
\* its handler, ends Forbidden (401 when the authentication itself fails)
\* and leaves the MFA row and the replay markers as they were.
C15_MfaRoleGate ==
  \A p \in Procs :
    /\ pc[p] # "idle" /\ req[p].op \in GatedOps => "admin" \in flags[p].rolesAt
    /\ pc[p] = "idle" /\ res[p].op \in GatedOps /\ "admin" \notin flags[p].rolesAt =>
         /\ res[p].status \in {"Forbidden", "unauthorized"}
         /\ flags[p].activeAt /\ ~ flags[p].fault => res[p].status = "Forbidden"
         /\ mfa[flags[p].uid] = flags[p].mfaAt
         /\ markers = flags[p].markersAt

\* a user with a provisioned record lost the admin role and asked to enable
C15_Witness ==
  \E p \in Procs :
    /\ res[p].op = "enable" /\ res[p].status = "Forbidden"
    /\ flags[p].mfaAt.secret # 0 /\ "admin" \notin flags[p].rolesAt

\* C16: a user whose MFA row has is_enabled = true holds the admin role.
C16_EnabledImpliesAdmin ==
  \A u \in UserIds : mfa[u].is_enabled => "admin" \in userRoles[u]

\* C17: the only step that turns off or re-keys an enabled MFA row is the
\* UPDATE of a disable request, which runs after verify returned true for the
\* code presented; a provisioning never does.
C17_EnabledRowGuarded ==
  [][\A u \in UserIds :
       mfa[u].is_enabled /\ (~ mfa'[u].is_enabled \/ mfa'[u].secret # mfa[u].secret) =>
         \E p \in Procs : pc[p] = "disable_update" /\ req[p].userId = u /\ pc'[p] = "idle"]_vars

\* C18: one request after another, an enable that succeeds found a stored
\* row whose secret validates the code and changed nothing but is_enabled,
\* which is now true; an enable that does not succeed leaves the MFA row and
\* the replay markers as they were, and it raises 'MFA not set up' exactly
\* when there was no row and 'Invalid MFA token' only for a code that does
\* not validate.
C18_EnableOnlyWithValidCode ==
  \A p \in Procs :
    pc[p] = "idle" /\ res[p].op = "enable" =>
      LET was == flags[p].mfaAt
          u == flags[p].uid
      IN  /\ res[p].status = "ok" =>
               /\ was.secret # 0
               /\ TotpVerify(was.secret, flags[p].code, now)
               /\ mfa[u] = [was EXCEPT !.is_enabled = TRUE]
          /\ res[p].status # "ok" => mfa[u] = was /\ markers = flags[p].markersAt
          /\ res[p].status = "MfaNotSetUp" => was.secret = 0
          /\ res[p].status = "InvalidMFAToken" =>
               was.secret # 0 /\ ~ TotpVerify(was.secret, flags[p].code, now)

\* an enable with a code that does not validate was turned down
C18_Witness ==
  \E p \in Procs :
    /\ pc[p] = "idle" /\ res[p].op = "enable" /\ res[p].status = "InvalidMFAToken"
    /\ flags[p].mfaAt.secret # 0 /\ ~ flags[p].mfaAt.is_enabled

\* what verify leaves of a backup-code list when it accepts X on the given path
AfterVerify(codes, code, path) ==
  IF path = "backup" THEN FilterOut(codes, ToUpperCase(code)) ELSE codes

\* the code was one verify accepts for the row, on the given path
Verified(row, markerSet, u, code, path) ==
  /\ row.secret # 0 /\ row.is_enabled
  /\ path = "backup" => Includes(row.backup_codes, ToUpperCase(code))
  /\ path = "totp" =>
       /\ ~ Includes(row.backup_codes, ToUpperCase(code))
       /\ TotpVerify(row.secret, code, now)
       /\ ~ \E m \in markerSet : m.userId = u /\ m.token = code /\ now < m.expireAt
  /\ path \in {"backup", "totp"}

\* C19: one request after another, a disable that succeeds was given a code
\* that verify accepts, and leaves the row with is_enabled false, the same
\* secret and every backup code but the one just consumed; a disable turned
\* down with 'Invalid MFA token' leaves the row as it was.
C19_DisableKeepsSecretAndCodes ==
  \A p \in Procs :
    pc[p] = "idle" /\ res[p].op = "disable" =>
      LET was == flags[p].mfaAt
          u == flags[p].uid
      IN  /\ res[p].status = "ok" =>
               /\ Verified(was, flags[p].markersAt, u, flags[p].code, res[p].path)
               /\ mfa[u] = [was EXCEPT !.is_enabled = FALSE,
                                       !.backup_codes = AfterVerify(@, flags[p].code, res[p].path)]
          /\ res[p].status = "InvalidMFAToken" => mfa[u] = was

\* a disable paid for with a backup code went through
C19_Witness ==
  \E p \in Procs :
    /\ pc[p] = "idle" /\ res[p].op = "disable" /\ res[p].status = "ok"
    /\ res[p].path = "backup" /\ flags[p].mfaAt.is_enabled

\* C20: one request after another, a regenerate that succeeds was given a code
\* that verify accepts, and the stored list is then the ten codes it returned,
\* none of which verify accepted before; a regenerate turned down with
\* 'Invalid MFA token' leaves the stored list as it was.
C20_RegenerateReplacesCodes ==
  \A p \in Procs :
    pc[p] = "idle" /\ res[p].op = "regenerate" =>
      LET was == flags[p].mfaAt
          u == flags[p].uid
      IN  /\ res[p].status = "ok" =>
               /\ Verified(was, flags[p].markersAt, u, flags[p].code, res[p].path)
               /\ mfa[u].backup_codes = res[p].backupCodes
               /\ BackupCodesRemaining(mfa[u]) = BackupCodeCount
               /\ \A i \in DOMAIN was.backup_codes :
                    ~ Includes(mfa[u].backup_codes, was.backup_codes[i])
          /\ res[p].status = "InvalidMFAToken" =>
               mfa[u].backup_codes = flags[p].mfaAt.backup_codes

VerifyLabels == {"verify_select", "verify_backup", "verify_marker", "verify_setex"}

\* C21: one request after another, a verify that reached the service always
\* ends with a verdict, never an error; the verdict is false when a storage
\* or cache round trip failed, when the code is not one verify accepts for
\* the record, and when the record is missing, pending or disabled, in which
\* case the record and the replay markers are left as they were.
C21_VerifyNeverRaises ==
  [][\A p \in Procs :
       pc[p] \in VerifyLabels /\ req[p].op = "verify" /\ pc'[p] = "idle" =>
         LET was == flags[p].mfaAt
             u == flags[p].uid
         IN  /\ res'[p].op = "verify" /\ res'[p].status = "ok"
             /\ faults' # faults => ~ res'[p].isValid
             /\ res'[p].isValid =>
                  Verified(was, flags[p].markersAt, u, flags[p].code, res'[p].path)
             /\ ~ (was.secret # 0 /\ was.is_enabled) =>
                  /\ ~ res'[p].isValid
                  /\ mfa'[u] = was
                  /\ markers' = flags[p].markersAt]_vars

\* a stored backup code of a record that is not enabled was turned down
C21_Witness ==
  \E p \in Procs :
    /\ pc[p] = "idle" /\ res[p].op = "verify" /\ res[p].status = "ok"
    /\ ~ res[p].isValid
    /\ flags[p].mfaAt.secret # 0 /\ ~ flags[p].mfaAt.is_enabled
    /\ Includes(flags[p].mfaAt.backup_codes, ToUpperCase(flags[p].code))
    /\ mfa[flags[p].uid] = flags[p].mfaAt

\* the runner is at rest after a run that ended as given
RunEnded(status) == runner.pc = "idle" /\ mres.op = "run" /\ mres.status = status

\* C22: after a run that a failing unit aborted, every unit the run executed
\* before it is still recorded in schema_migrations with its table in place,
\* and the failing unit has left no table behind.
C22_PerUnitAtomicity ==
  RunEnded("MigrationFailed") =>
    /\ \A i \in DOMAIN mres.executed :
         /\ mres.executed[i].ts \in GetAppliedMigrations(schemaMigrations)
         /\ tables = SqlEffect(mres.executed[i], tables)
    /\ mres.failed.ts \in tables => mres.failed.ts \in mres.before.tables

\* C23: a run that directly follows a successful run, with the same files in
\* the directory, succeeds, executes no unit, returns the empty list and
\* leaves the schema and schema_migrations as they were.
C23_MigrationIdempotence ==
  runner.pc = "idle" /\ mres.op = "run" /\ mres.afterRun =>
    /\ mres.status = "ok"
    /\ mres.results = <<>> /\ mres.executed = <<>>
    /\ tables = mres.before.tables
    /\ schemaMigrations = mres.before.rows

\* a second run right after a run that applied units
C23_Witness ==
  /\ RunEnded("ok") /\ mres.afterRun
  /\ schemaMigrations # {} /\ mres.before.rows = schemaMigrations

\* the scripts the current or the last run has executed, in order, the one
\* that failed included, and the rows recorded when that run began
RunScripts ==
  IF runner.pc = "run_loop" THEN runner.executed
  ELSE IF mres.op = "run" /\ mres.failed # NoFile THEN Append(mres.executed, mres.failed)
  ELSE IF mres.op = "run" THEN mres.executed
  ELSE <<>>

RunFound == IF runner.pc = "run_loop" THEN txSnap.rows ELSE mres.before.rows

\* C24: the scripts a run executes come in ascending order of their
\* timestamps, and none of them belongs to a unit that schema_migrations
\* recorded when the run began.
C24_TimestampOrder ==
  /\ \A i, j \in DOMAIN RunScripts : i < j => RunScripts[i].ts <= RunScripts[j].ts
  /\ \A i \in DOMAIN RunScripts : RunScripts[i].ts \notin GetAppliedMigrations(RunFound)

\* a run that found a recorded unit and applied two others
C24_Witness ==
  /\ RunEnded("ok") /\ Len(mres.executed) >= 2
  /\ mres.before.rows # {}
  /\ mres.executed[1].ts < mres.executed[2].ts

\* the runner is at rest after a rollbackLast that ended as given
RollbackEnded(status) == runner.pc = "idle" /\ mres.op = "rollback" /\ mres.status = status

\* C25: the row rollbackLast selects is the one inserted last; when it
\* succeeds, that unit's table is dropped, exactly that row is gone from
\* schema_migrations, and the unit's script is reported as pending.
C25_RollbackSelectsLast ==
  /\ runner.pc = "idle" /\ mres.op = "rollback" /\ mres.selected # NoRow =>
       \A r \in mres.before.rows : r.seq <= mres.selected.seq
  /\ RollbackEnded("ok") =>
       /\ tables = mres.before.tables \ {mres.selected.id}
       /\ schemaMigrations = mres.before.rows \ {mres.selected}
       /\ \E f \in MigrationStatus.pending : Filename(f) = mres.selected.filename

\* C26: rollbackLast ends in an error when schema_migrations has no row, and
\* when the selected unit has no inverse script or one whose SQL fails; after
\* every such error the schema and schema_migrations are as they were.
C26_RollbackFailsCleanly ==
  runner.pc = "idle" /\ mres.op = "rollback" =>
    /\ mres.before.rows = {} => mres.status \in {"NoMigrations", "QueryFailed"}
    /\ (/\ mres.selected # NoRow
        /\ ~ \E f \in mres.dirAt : f.rollback /\ f.ts = mres.selected.id /\ ~ f.broken)
         => mres.status = "RollbackInvalid"
    /\ mres.status # "ok" =>
         /\ tables = mres.before.tables
         /\ schemaMigrations = mres.before.rows
         /\ hasMigrationsTable = mres.before.has

\* the inverse script of the selected unit raised an error
C26_Witness ==
  /\ RollbackEnded("RollbackInvalid")
  /\ \E f \in mres.dirAt : f.rollback /\ f.ts = mres.selected.id /\ f.broken
  /\ mres.selected.id \in tables

\* C27: for a session that validate has just produced, requirePermission
\* lets (resource, action) through exactly when one of the roles the user
\* held when the session was built is assigned that permission.
C27_SessionPermissions ==
  \A p \in Procs :
    res[p].op = "validate" /\ res[p].status = "session" =>
      \A perm \in Permissions :
        RequirePermission(res[p].permissions, perm.resource, perm.action)
          <=> \E r \in flags[p].rolesAt : perm \in RolePermissions(r)

\* C28: requireRole calls next() exactly when the session holds one of the
\* required roles, answers 403 otherwise, and leaves the session as it was.
C28_RequireRoleIntersection ==
  \A p \in Procs :
    flags[p].gate = "requireRole" /\ flags[p].userAt.status = "session" =>
      /\ flags[p].answer = "next" <=> flags[p].required \cap flags[p].userAt.roles # {}
      /\ flags[p].answer \in {"next", "403"}
      /\ res[p] = flags[p].userAt

\* one of two required roles is held, and the request went through
C28_Witness ==
  \E p \in Procs :
    /\ flags[p].gate = "requireRole" /\ flags[p].answer = "next"
    /\ flags[p].required = {"admin", "organization_admin"}
    /\ flags[p].userAt.roles = {"organization_admin", "user"}

\* C29: a federate call ends with its result or with 'Authentication
\* failed', a refresh call with a token pair or with 'Invalid refresh token';
\* no other error leaves either of them.
C29_ErrorNormalisation ==
  \A p \in Procs :
    /\ res[p].op = "federate" => res[p].status \in {"ok", "AuthenticationFailed"}
    /\ res[p].op = "refresh" => res[p].status \in {"ok", "InvalidRefreshToken"}

\* a storage or cache fault has happened, a federate call has failed and a
\* refresh call has failed
C29_Witness ==
  /\ faults > 0
  /\ \E p \in Procs : res[p].op = "federate" /\ res[p].status = "AuthenticationFailed"
  /\ \E p \in Procs : res[p].op = "refresh" /\ res[p].status = "InvalidRefreshToken"

\* C30: one call after another, a setup that succeeds returns ten backup
\* codes and leaves a row that is not enabled and stores those ten codes, so
\* that status reports backupCodesRemaining 10; a setup for a user without a
\* row in users fails and writes nothing.
C30_ProvisionStoresTenCodes ==
  \A p \in Procs :
    pc[p] = "idle" /\ res[p].op = "setup" =>
      LET u == flags[p].uid
      IN  /\ res[p].status = "ok" =>
               /\ Len(res[p].backupCodes) = BackupCodeCount
               /\ mfa[u].secret # 0 /\ ~ mfa[u].is_enabled
               /\ mfa[u].backup_codes = res[p].backupCodes
               /\ BackupCodesRemaining(mfa[u]) = BackupCodeCount
          /\ FindById(u) = {} =>
               /\ res[p].status \in {"UserNotFound", "StorageError"}
               /\ mfa[u] = flags[p].mfaAt

\* a record that was enabled has been provisioned again
C30_Witness ==
  \E p \in Procs :
    /\ pc[p] = "idle" /\ res[p].op = "setup" /\ res[p].status = "ok"
    /\ flags[p].mfaAt.is_enabled
    /\ mfa[flags[p].uid].secret # flags[p].mfaAt.secret

\* C31: a verify or status request of an authenticated user who holds no admin
\* role and has no MFA row is never answered Forbidden: verify returns
\* isValid false, status returns enabled false with no backup code remaining;
\* a status request leaves the MFA row and the replay markers as it found them.
C31_VerifyStatusNotGated ==
  \A p \in Procs :
    /\ pc[p] = "idle" /\ res[p].op \in {"verify", "status"}
         /\ flags[p].activeAt /\ ~ flags[p].fault
         /\ "admin" \notin flags[p].rolesAt /\ flags[p].mfaAt = NoMfa =>
         /\ res[p].status = "ok"
         /\ res[p].op = "verify" => ~ res[p].isValid
         /\ res[p].op = "status" => ~ res[p].enabled /\ res[p].backupCodesRemaining = 0
    /\ req[p].op = "status" \/ (pc[p] = "idle" /\ res[p].op = "status") =>
         /\ mfa[flags[p].uid] = flags[p].mfaAt
         /\ markers = flags[p].markersAt

\* a user without the admin role and without a row has asked for the status
\* and got its answer
C31_Witness ==
  \E p \in Procs :
    /\ pc[p] = "idle" /\ res[p].op = "status" /\ res[p].status = "ok"
    /\ flags[p].activeAt /\ "admin" \notin flags[p].rolesAt /\ flags[p].mfaAt = NoMfa
    /\ ~ res[p].enabled /\ res[p].backupCodesRemaining = 0

\* C32: the row a successful disable leaves behind still holds its secret,
\* and an enable request that follows it with a one-time code of that secret
\* ends with is_enabled = true and with the secret and the backup codes the
\* disable left (unless the storage fails, which leaves the row as it was).
C32_ReenableAfterDisable ==
  \A p \in Procs :
    /\ flags[p].afterDisable =>
         flags[p].mfaAt.secret # 0 /\ ~ flags[p].mfaAt.is_enabled
    /\ pc[p] = "idle" /\ res[p].op = "enable" /\ flags[p].afterDisable
         /\ flags[p].activeAt /\ ~ flags[p].fault /\ "admin" \in flags[p].rolesAt
         /\ TotpVerify(flags[p].mfaAt.secret, flags[p].code, now) =>
         /\ res[p].status \in {"ok", "StorageError"}
         /\ res[p].status = "ok" =>
              mfa[flags[p].uid] = [flags[p].mfaAt EXCEPT !.is_enabled = TRUE]
         /\ res[p].status = "StorageError" => mfa[flags[p].uid] = flags[p].mfaAt

\* a record was disabled with one of its backup codes and enabled again: the
\* nine codes that were left are still there
C32_Witness ==
  \E p \in Procs :
    /\ pc[p] = "idle" /\ res[p].op = "enable" /\ res[p].status = "ok"
    /\ flags[p].afterDisable
    /\ mfa[flags[p].uid].is_enabled
    /\ mfa[flags[p].uid].secret = flags[p].mfaAt.secret
    /\ Len(mfa[flags[p].uid].backup_codes) = BackupCodeCount - 1

\* C33: a federate call for an identity that has no user row, with a provider
\* tag of the OAuthProvider type and no storage fault, returns isNewUser =
\* true and a user carrying the profile's provider tag.
C33_FirstSightFederation ==
  \A p \in Procs :
    pc[p] = "idle" /\ res[p].op = "federate" /\ flags[p].firstSight # NoProfile
      /\ faults = 0 =>
      /\ res[p].status = "ok"
      /\ res[p].isNewUser
      /\ \E u \in users : /\ u.id = res[p].userId
                          /\ u.oauth_provider = flags[p].firstSight.provider

\* two refresh calls that presented the same token, each begun before the
\* other had exchanged it, have both returned a credential pair
BothRefreshed(p, q) ==
  /\ p # q
  /\ pc[p] = "idle" /\ pc[q] = "idle"
  /\ Refreshed(p) /\ Refreshed(q)
  /\ flags[p].matched = flags[q].matched
  /\ ~ flags[p].afterConsumed /\ ~ flags[q].afterConsumed

\* C34: once two concurrent refresh calls that presented the same token have
\* both succeeded, refresh accepts exactly one token of the user, and of the two
\* refresh tokens returned exactly one: the token of the other caller is
\* rejected.
C34_ConcurrentRefresh ==
  \A p, q \in Procs :
    BothRefreshed(p, q) =>
      /\ Cardinality({t \in Presentable : t.userId = res[p].userId /\ RefreshAccepts(t)}) = 1
      /\ RefreshAccepts(res[p].refreshToken) # RefreshAccepts(res[q].refreshToken)

\* C35: the step in which a federate or refresh call returns its credential
\* pair returns a refresh token and an access token that were not returned by
\* any earlier issue.
C35_IssuedTokensFresh ==
  [][\A p \in Procs :
       pc[p] \in {"fed_tokens", "ref_tokens"} /\ pc'[p] = "idle" /\ res'[p].status = "ok" =>
         /\ res'[p].refreshToken \notin issued
         /\ res'[p].accessToken \notin issued]_vars

\* C36: whenever no federate call stands between its user insert and its
\* profile insert, every row of users has a row in user_profiles.
C36_UserHasProfile ==
  (\A p \in Procs : pc[p] # "fed_profile") =>
    \A u \in users : u.id \in profiles

\* C37: no refresh call that presents the stored refresh token of a user whose
\* row had is_active = false when the call began returns a credential pair.
C37_NoIssueForInactiveUser ==
  \A p \in Procs :
    pc[p] = "idle" /\ res[p].op = "refresh" /\ flags[p].inactiveAt =>
      res[p].status # "ok"

\* C38: no script a run executes is an inverse script, and no two scripts a
\* run executes carry the same identifier.
C38_RunExecutesForwardOnly ==
  /\ \A i \in DOMAIN RunScripts : ~ RunScripts[i].rollback
  /\ \A i, j \in DOMAIN RunScripts : i # j => RunScripts[i].ts # RunScripts[j].ts

\* a regenerate and a backup-code verify of the same user, each begun while
\* the row still held the list the other one found, have both returned
RegenerateRacedVerify(p, q) ==
  /\ p # q
  /\ pc[p] = "idle" /\ pc[q] = "idle"
  /\ res[p].op = "regenerate" /\ res[p].status = "ok"
  /\ res[q].op = "verify" /\ res[q].userId = res[p].userId
  /\ Includes(flags[q].mfaAt.backup_codes, ToUpperCase(res[q].code))
  /\ flags[p].mfaAt.backup_codes = flags[q].mfaAt.backup_codes

\* C39: once a regenerate and a concurrent backup-code verify of the same user
\* have both completed, the stored backup codes are exactly the codes the
\* regenerate returned.
C39_RegenerateWinsRace ==
  \A p, q \in Procs :
    RegenerateRacedVerify(p, q) =>
      mfa[res[p].userId].backup_codes = res[p].backupCodes

\* the unit of file f is recorded in rows with a checksum that is not the
\* checksum of the text f has now
ChecksumMismatch(f, rows) ==
  \E r \in rows : r.id = f.ts /\ r.checksum # CalculateChecksum(Sql(f))

\* the directory the current or the last run has read
RunDir == IF runner.pc = "run_loop" THEN dir ELSE mres.dirAt

\* C40: a file whose unit is recorded with a checksum other than that of its
\* present text is reported as applied and not as pending, and a run that
\* finds it so executes none of its text.
C40_ChecksumWriteOnly ==
  /\ \A f \in dir :
       ChecksumMismatch(f, schemaMigrations) =>
         f \in MigrationStatus.applied /\ f \notin MigrationStatus.pending
  /\ \A f \in RunDir :
       ChecksumMismatch(f, RunFound) => \A i \in DOMAIN RunScripts : RunScripts[i] # f

\* a run applied a new unit and passed over an applied unit whose text had
\* been changed since
C40_Witness ==
  /\ RunEnded("ok") /\ mres.executed # <<>>
  /\ \E f \in mres.dirAt :
       /\ ChecksumMismatch(f, mres.before.rows)
       /\ \A i \in DOMAIN mres.executed : mres.executed[i] # f
       /\ f \in dir /\ f \in MigrationStatus.applied

====
